---- MODULE Spec2Model ----
(***************************************************************************)
(* Model of the policy engine build pipeline (build.sh) and of the files   *)
(* it reads and writes: the policy root, the core go.mod replace           *)
(* directives, the generated imports.go, the compiled binary and the       *)
(* final image.  The import generator (import-generator/main.go) is run    *)
(* by build.sh but its source is not part of the tree; it is modelled      *)
(* from its specification.                                                  *)
(***************************************************************************)
EXTENDS Integers, Sequences, FiniteSets, TLC

(* ---- bounds ---- *)
NDirs == 2          \* subdirectories of /policies, in glob (name) order
NIds == 2           \* distinct module paths a go.mod may declare
MaxRuns == 2        \* invocations of build.sh over the same container state
NNames == 3         \* distinct policy names
MaxPolicies == 3    \* RegisterPolicy calls issued by the generated init()

Dirs == 1..NDirs
Ids == 1..NIds
NoId == 0           \* "module" line absent: grep|awk prints nothing
OldPath == NDirs + 1    \* a path that is no subdirectory of the scanned root

(* ---- stages of the orchestrator ---- *)
Discovering == 1
Generating == 2
Rewriting == 3
Compiling == 4
Packaging == 5
Done == 6
Failed == 7

VARIABLES
    policies,       \* /policies/*/ : what each subdirectory holds
    rootExists,     \* [ -d /policies ]
    manifest,       \* replace directives of /app/core/go.mod, in file order
    manifest0,      \* manifest at the start of the current run
    imports,        \* /app/core/imports.go : written by this run?, its content
    modules,        \* the generator's discovered module set (sorted)
    binary,         \* /app/core/policy-engine : "none", "old" (earlier run), "new"
    image,          \* final image : "none", "old" (earlier run), "new"
    buildContext,   \* /tmp/final-image-build exists
    socket,         \* result of [ -S /var/run/docker.sock ], "unknown" before
    warned,         \* the "Docker socket not mounted" warning was printed
    pc,             \* position in build.sh
    i,              \* loop variable of the replace-directive loop
    exitCode,       \* exit status of build.sh, -1 while running
    trace,          \* stages entered in this run, in order
    failed,         \* commands that returned non-zero in this run
    invoked,        \* external tools invoked in this run
    run,            \* number of the current run
    edited,         \* directories whose go mod edit -replace succeeded in this run
    imageRef,       \* IMAGE_NAME / IMAGE_TAG as read and the reference built from them
    prev,           \* manifest after the rewrite of the previous run, when that
                    \* run finished its rewrite over the directories of this run
    (* ---- the policy-engine process (core/main.go, core/interfaces.go) ---- *)
    regs,           \* policies handed to RegisterPolicy by init(), in order
    registry,       \* PolicyRegistry.policies : name -> policy (index in regs)
    rpc,            \* position in the process: "init", "dispatch", "exited"
    regIdx,         \* next RegisterPolicy call
    lastErr,        \* error returned by the last Register call
    calls,          \* methods the last Register call invoked on its policy
    names,          \* the slice List() returned to main
    nameIdx,        \* position of main's loop in names
    executed,       \* policies whose Execute was called, in call order
    results,        \* policies whose result was printed, in order
    rtExit,         \* exit status of the process, -1 while running
    ctx,            \* the context main created for the batch
    ctxs,           \* the context each Execute call received, in call order
    rtWarned        \* "Warning: No policies registered" was logged

buildVars == <<policies, rootExists, manifest, manifest0, imports, modules,
               binary, image, buildContext, socket, warned, pc, i, exitCode,
               trace, failed, invoked, run, edited, imageRef, prev>>

rtVars == <<regs, registry, rpc, regIdx, lastErr, calls, names, nameIdx, executed,
            results, rtExit, ctx, ctxs, rtWarned>>

vars == <<buildVars, rtVars>>

(* ---- the policy root ---- *)
Absent == [present |-> FALSE, mod |-> FALSE, id |-> NoId, src |-> FALSE]

DirStates ==
    {Absent}
    \cup {[present |-> TRUE, mod |-> FALSE, id |-> NoId, src |-> s] : s \in BOOLEAN}
    \cup {[present |-> TRUE, mod |-> TRUE, id |-> m, src |-> s] :
              m \in {NoId} \cup Ids, s \in BOOLEAN}

(* ---- import generator (modelled from its specification) ---- *)

\* the orders in which a scan of the root may meet its subdirectories
DirOrders == {f \in [Dirs -> Dirs] : \A a, b \in Dirs : f[a] = f[b] => a = b}

Recognized(p, d) == p[d].present /\ p[d].mod /\ p[d].id # NoId /\ p[d].src

Malformed(p) == \E d \in Dirs : p[d].present /\ p[d].mod /\ p[d].id = NoId

Colliding(p) ==
    \E d1, d2 \in Dirs : d1 # d2 /\ Recognized(p, d1) /\ Recognized(p, d2)
                         /\ p[d1].id = p[d2].id

ScanFails(root, p) == ~root \/ Malformed(p) \/ Colliding(p)

RECURSIVE SortById(_, _)
SortById(p, S) ==
    IF S = {} THEN <<>>
    ELSE LET d == CHOOSE x \in S : \A y \in S : p[x].id <= p[y].id
         IN <<d>> \o SortById(p, S \ {d})

\* the recognized directories in the order the scan meets them
Traversed(p, order) == SelectSeq(order, LAMBDA d : Recognized(p, d))

SeqRange(q) == {q[n] : n \in 1..Len(q)}

\* the discovered module set, sorted by declared import identifier
Discover_traversal(p, order) == Traversed(p, order)
Discover(p, order) == SortById(p, SeqRange(Traversed(p, order)))

\* final path segment of an import identifier: identifiers 1 and 2 end in
\* the same segment, every other identifier in one of its own
Segment(id) == IF id <= 2 THEN 1 ELSE id - 1

\* alias of the n-th module: its final segment, with the number of earlier
\* modules of the same segment as discriminator (0: no suffix)
Alias_bare(p, ms, n) == [seg |-> Segment(p[ms[n]].id), disc |-> 0]
Alias(p, ms, n) ==
    [seg |-> Segment(p[ms[n]].id),
     disc |-> Cardinality({a \in 1..(n - 1) :
                             Segment(p[ms[a]].id) = Segment(p[ms[n]].id)})]

\* the aggregator source: one import per module, one registration call per
\* module, both in the order of the module set
Generate(p, ms) ==
    [imports |-> [n \in 1..Len(ms) |->
                     [alias |-> Alias(p, ms, n), id |-> p[ms[n]].id]],
     calls |-> [n \in 1..Len(ms) |-> Alias(p, ms, n)]]

NoSource == [imports |-> <<>>, calls |-> <<>>]

(* ---- build.sh ---- *)

\* set -e : a command returning non-zero ends the script with that status
ErrExit_off(rc) == FALSE
ErrExit(rc) == rc # 0

\* [ -f "${policy_dir}go.mod" ] and [ -n "$module_path" ]
LoopAdds(p, d) == p[d].present /\ p[d].mod /\ p[d].id # NoId

HasReplace(m, id) == \E k \in 1..Len(m) : m[k].id = id

FirstReplace(m, id) == CHOOSE k \in 1..Len(m) :
                           m[k].id = id /\ \A j \in 1..(k-1) : m[j].id # id

RECURSIVE DropLater(_, _, _)
DropLater(m, id, seen) ==
    IF m = <<>> THEN <<>>
    ELSE IF Head(m).id = id
         THEN (IF seen THEN <<>> ELSE <<Head(m)>>) \o DropLater(Tail(m), id, TRUE)
         ELSE <<Head(m)>> \o DropLater(Tail(m), id, seen)

\* go mod edit -replace=old=new : one directive per old path, the first one
\* for old is updated in place, others for old are deleted, else appended
ModEditReplace_append(m, id, path) == Append(m, [id |-> id, path |-> path])
ModEditReplace(m, id, path) ==
    IF HasReplace(m, id)
    THEN LET k == FirstReplace(m, id)
         IN DropLater([m EXCEPT ![k] = [id |-> id, path |-> path]], id, FALSE)
    ELSE Append(m, [id |-> id, path |-> path])

\* the whole replace-directive loop, from directory d on, every edit succeeding
RECURSIVE ReplaceLoop(_, _, _)
ReplaceLoop(m, p, d) ==
    IF d > NDirs THEN m
    ELSE ReplaceLoop(IF LoopAdds(p, d) THEN ModEditReplace(m, p[d].id, d) ELSE m,
                     p, d + 1)

\* an environment variable: unset, set to the empty string, or set to a name
EnvValues == {[set |-> FALSE, val |-> ""], [set |-> TRUE, val |-> ""],
              [set |-> TRUE, val |-> "custom"]}

\* ${VAR:-default} : the default when VAR is unset or empty
DefaultExpand_unsetOnly(v, d) == IF ~v.set THEN d ELSE v.val
DefaultExpand(v, d) == IF ~v.set \/ v.val = "" THEN d ELSE v.val

\* lines 193-196: "${IMAGE_NAME}:${IMAGE_TAG}"
ImageRef(repo, tag) ==
    <<DefaultExpand(repo, "policy-engine"), ":", DefaultExpand(tag, "latest")>>

NoRef == [repo |-> [set |-> FALSE, val |-> ""],
          tag |-> [set |-> FALSE, val |-> ""], ref |-> <<>>]

\* context.Background(): never cancelled, no deadline
Background == [kind |-> "background", done |-> FALSE]
NoCtx == [kind |-> "none", done |-> FALSE]

CurStage == trace[Len(trace)]

\* the policy-engine process is not running
RtIdle ==
    /\ regs = <<>>
    /\ registry = <<>>
    /\ rpc = "off"
    /\ regIdx = 1
    /\ lastErr = FALSE
    /\ calls = <<>>
    /\ names = <<>>
    /\ nameIdx = 1
    /\ executed = <<>>
    /\ results = <<>>
    /\ rtExit = -1
    /\ ctx = NoCtx
    /\ ctxs = <<>>
    /\ rtWarned = FALSE

\* command cmd returned rc # 0 and set -e ends the script with that status
Abort(cmd, rc) ==
    /\ pc' = "exited"
    /\ exitCode' = rc
    /\ trace' = Append(trace, Failed)
    /\ failed' = failed \cup {cmd}

\* command cmd returned rc and the script goes on at nextpc
Continue(cmd, rc, nextpc, entered) ==
    /\ pc' = nextpc
    /\ exitCode' = exitCode
    /\ trace' = trace \o entered
    /\ failed' = IF rc # 0 THEN failed \cup {cmd} ELSE failed

Init ==
    /\ policies \in [Dirs -> DirStates]
    /\ rootExists \in BOOLEAN
    /\ manifest \in {<<>>, <<[id |-> 1, path |-> OldPath]>>}
    /\ manifest0 = manifest
    /\ imports = [new |-> FALSE, src |-> NoSource]
    /\ modules = <<>>
    /\ binary = "none"
    /\ image = "none"
    /\ buildContext = FALSE
    /\ socket = "unknown"
    /\ warned = FALSE
    /\ pc = "download"
    /\ i = 1
    /\ exitCode = -1
    /\ trace = <<Discovering>>
    /\ failed = {}
    /\ invoked = {}
    /\ run = 1
    /\ edited = {}
    /\ imageRef = NoRef
    /\ prev = [run |-> 0, manifest |-> <<>>, src |-> NoSource]
    /\ RtIdle

\* line 88: go mod download (import generator dependencies)
Download ==
    /\ pc = "download"
    /\ \E rc \in {0, 1} :
         IF ErrExit(rc) THEN Abort("download", rc) ELSE Continue("download", rc, "scan", <<>>)
    /\ UNCHANGED <<policies, rootExists, manifest, manifest0, imports, modules,
                   binary, image, buildContext, socket, warned, i, invoked,
                   run, prev>>
    /\ UNCHANGED <<edited, imageRef>>
    /\ UNCHANGED rtVars

\* line 92, first half: the generator scans /policies; when the scan fails
\* the generator process ends with a non-zero status
Scan ==
    /\ pc = "scan"
    /\ invoked' = invoked \cup {"generator"}
    /\ \E rc \in (IF ScanFails(rootExists, policies) THEN {1} ELSE {0, 1}),
          order \in DirOrders :
         /\ modules' = IF rc = 0 THEN Discover(policies, order) ELSE modules
         /\ IF rc = 0 THEN Continue("generator", rc, "generate", <<Generating>>)
            ELSE IF ErrExit(rc) THEN Abort("generator", rc)
            ELSE Continue("generator", rc, "loop", <<Rewriting>>)
    /\ UNCHANGED <<policies, rootExists, manifest, manifest0, imports, binary,
                   image, buildContext, socket, warned, i, run, prev>>
    /\ UNCHANGED <<edited, imageRef>>
    /\ UNCHANGED rtVars

\* line 92, second half: the generator writes /app/core/imports.go
GenerateImports ==
    /\ pc = "generate"
    /\ \E rc \in {0, 1} :
         /\ imports' = IF rc = 0
                       THEN [new |-> TRUE, src |-> Generate(policies, modules)]
                       ELSE imports
         /\ IF ErrExit(rc) THEN Abort("generator", rc)
            ELSE Continue("generator", rc, "loop", <<Rewriting>>)
    /\ i' = 1
    /\ UNCHANGED <<policies, rootExists, manifest, manifest0, modules, binary,
                   image, buildContext, socket, warned, invoked, run, prev>>
    /\ UNCHANGED <<edited, imageRef>>
    /\ UNCHANGED rtVars

\* line 104: "for policy_dir in /policies/*/" moves on to the next match
NextDir_same(d) == d
NextDir(d) == d + 1

\* lines 102-117: one iteration of the replace-directive loop
LoopIter ==
    /\ pc = "loop"
    /\ rootExists /\ i <= NDirs
    /\ IF LoopAdds(policies, i)
       THEN /\ invoked' = invoked \cup {"modedit"}
            /\ \E rc \in {0, 1} :
                 /\ manifest' = IF rc = 0
                                THEN ModEditReplace(manifest, policies[i].id, i)
                                ELSE manifest
                 /\ edited' = IF rc = 0 THEN edited \cup {i} ELSE edited
                 /\ IF ErrExit(rc) THEN Abort("modedit", rc) ELSE Continue("modedit", rc, "loop", <<>>)
       ELSE /\ Continue("modedit", 0, "loop", <<>>)
            /\ UNCHANGED <<manifest, invoked, edited>>
    /\ i' = NextDir(i)
    /\ imageRef' = imageRef
    /\ UNCHANGED <<policies, rootExists, manifest0, imports, modules, binary,
                   image, buildContext, socket, warned, run, prev>>
    /\ UNCHANGED rtVars

\* line 121: go mod tidy (reached when the loop is over or was not entered)
Tidy ==
    /\ pc = "loop"
    /\ ~rootExists \/ i > NDirs
    /\ invoked' = invoked \cup {"resolver"}
    /\ prev' = [run |-> run, manifest |-> manifest, src |-> imports.src]
    /\ \E rc \in {0, 1} :
         IF ErrExit(rc) THEN Abort("resolver", rc) ELSE Continue("resolver", rc, "build", <<Compiling>>)
    /\ UNCHANGED <<policies, rootExists, manifest, manifest0, imports, modules,
                   binary, image, buildContext, socket, warned, i, run>>
    /\ UNCHANGED <<edited, imageRef>>
    /\ UNCHANGED rtVars

\* line 129: go build -o policy-engine
Build ==
    /\ pc = "build"
    /\ invoked' = invoked \cup {"compiler"}
    /\ \E rc \in {0, 1} :
         /\ binary' = IF rc = 0 THEN "new" ELSE binary
         /\ IF ErrExit(rc) THEN Abort("compiler", rc) ELSE Continue("compiler", rc, "sockcheck", <<>>)
    /\ UNCHANGED <<policies, rootExists, manifest, manifest0, imports, modules,
                   image, buildContext, socket, warned, i, run, prev>>
    /\ UNCHANGED <<edited, imageRef>>
    /\ UNCHANGED rtVars

\* lines 146-155: Docker socket check; absent => warning and exit 0
SoftDegradeExit == 0

SocketAbsent_never(s) == FALSE
SocketAbsent(s) == s # "present"

SocketCheck ==
    /\ pc = "sockcheck"
    /\ \E s \in {"absent", "present"} :
         /\ socket' = s
         /\ IF SocketAbsent(s)
            THEN /\ warned' = TRUE
                 /\ pc' = "exited"
                 /\ exitCode' = SoftDegradeExit
                 /\ trace' = Append(trace, Done)
            ELSE /\ warned' = warned
                 /\ pc' = "mkdir"
                 /\ exitCode' = exitCode
                 /\ trace' = Append(trace, Packaging)
    /\ UNCHANGED <<policies, rootExists, manifest, manifest0, imports, modules,
                   binary, image, buildContext, i, failed, invoked, run, prev>>
    /\ UNCHANGED <<edited, imageRef>>
    /\ UNCHANGED rtVars

\* lines 158-159: mkdir -p "$BUILD_CONTEXT"
MakeContext ==
    /\ pc = "mkdir"
    /\ \E rc \in {0, 1} :
         /\ buildContext' = IF rc = 0 THEN TRUE ELSE buildContext
         /\ IF ErrExit(rc) THEN Abort("mkdir", rc) ELSE Continue("mkdir", rc, "copy", <<>>)
    /\ UNCHANGED <<policies, rootExists, manifest, manifest0, imports, modules,
                   binary, image, socket, warned, i, invoked, run, prev>>
    /\ UNCHANGED <<edited, imageRef>>
    /\ UNCHANGED rtVars

\* lines 163-189: cp the binary and write the Dockerfile into the context
FillContext ==
    /\ pc = "copy"
    /\ \E rc \in {0, 1} :
         IF ErrExit(rc) THEN Abort("copy", rc) ELSE Continue("copy", rc, "dockerbuild", <<>>)
    /\ UNCHANGED <<policies, rootExists, manifest, manifest0, imports, modules,
                   binary, image, buildContext, socket, warned, i, invoked,
                   run, prev>>
    /\ UNCHANGED <<edited, imageRef>>
    /\ UNCHANGED rtVars

\* lines 193-196: docker build -t name:tag "$BUILD_CONTEXT"
DockerBuild ==
    /\ pc = "dockerbuild"
    /\ \E repo \in EnvValues, tag \in EnvValues :
         imageRef' = [repo |-> repo, tag |-> tag, ref |-> ImageRef(repo, tag)]
    /\ edited' = edited
    /\ invoked' = invoked \cup {"docker"}
    /\ \E rc \in {0, 1} :
         /\ image' = IF rc = 0 THEN "new" ELSE image
         /\ IF ErrExit(rc) THEN Abort("docker", rc) ELSE Continue("docker", rc, "cleanup", <<>>)
    /\ UNCHANGED <<policies, rootExists, manifest, manifest0, imports, modules,
                   binary, buildContext, socket, warned, i, run, prev>>
    /\ UNCHANGED rtVars

\* lines 201-215: rm -rf "$BUILD_CONTEXT", summary, end of script
Cleanup ==
    /\ pc = "cleanup"
    /\ buildContext' = FALSE
    /\ pc' = "exited"
    /\ exitCode' = 0
    /\ trace' = Append(trace, Done)
    /\ UNCHANGED <<policies, rootExists, manifest, manifest0, imports, modules,
                   binary, image, socket, warned, i, failed, invoked, run, prev>>
    /\ UNCHANGED <<edited, imageRef>>
    /\ UNCHANGED rtVars

\* between two runs the operator leaves /policies alone, removes one
\* subdirectory or adds one well-formed module
Edits(p) ==
    {p} \cup {[p EXCEPT ![d] = Absent] : d \in {x \in Dirs : p[x].present}}
        \cup {[p EXCEPT ![d] = [present |-> TRUE, mod |-> TRUE, id |-> m,
                                src |-> TRUE]] :
                  d \in {x \in Dirs : ~p[x].present}, m \in Ids}

Aged(tag) == IF tag = "new" THEN "old" ELSE tag

\* build.sh is invoked again on the files the previous run left behind
Rerun ==
    /\ pc = "exited"
    /\ run < MaxRuns
    /\ run' = run + 1
    /\ policies' \in Edits(policies)
    /\ prev' = IF policies' = policies /\ prev.run = run THEN prev
               ELSE [run |-> 0, manifest |-> <<>>, src |-> NoSource]
    /\ manifest0' = manifest
    /\ imports' = [imports EXCEPT !.new = FALSE]
    /\ binary' = Aged(binary)
    /\ image' = Aged(image)
    /\ socket' = "unknown"
    /\ warned' = FALSE
    /\ pc' = "download"
    /\ i' = 1
    /\ exitCode' = -1
    /\ trace' = <<Discovering>>
    /\ failed' = {}
    /\ invoked' = {}
    /\ modules' = <<>>
    /\ edited' = {}
    /\ imageRef' = NoRef
    /\ UNCHANGED <<rootExists, manifest, buildContext>>
    /\ UNCHANGED rtVars

Next ==
    \/ Download \/ Scan \/ GenerateImports \/ LoopIter \/ Tidy \/ Build
    \/ SocketCheck \/ MakeContext \/ FillContext \/ DockerBuild \/ Cleanup
    \/ Rerun

Spec == Init /\ [][Next]_vars

\* the steps of one run: each is one command of build.sh returning
RunStep ==
    \/ Download \/ Scan \/ GenerateImports \/ LoopIter \/ Tidy \/ Build
    \/ SocketCheck \/ MakeContext \/ FillContext \/ DockerBuild \/ Cleanup

\* build.sh is invoked again over an unchanged /policies
SameRerun == Rerun /\ policies' = policies

FairNext == RunStep \/ SameRerun

\* build.sh is one sequential shell process: once the command it waits for
\* has returned, the script goes on to its next line
FairSpec == Init /\ [][FairNext]_vars /\ WF_vars(RunStep)

(* ---- the policy-engine process: core/interfaces.go, core/main.go ---- *)

Names == 1..NNames      \* policy names, in string order

\* what a policy's Validate and Execute return
Kinds == {"ok", "invalid", "execfail"}

PolicyRecs == [name : Names, kind : Kinds]

Nil == 0                \* the nil Policy
NoName == 0             \* the empty string, no policy's name

\* p.Validate() returns nil
Validate(p) == p.kind # "invalid"

\* p.Execute(ctx, input) returns a nil error
ExecuteOk(p) == p.kind = "ok"

NewPolicyRegistry == <<>>

\* r.policies[n] = v
Put_keepFirst(r, n, v) ==
    [x \in (DOMAIN r) \cup {n} |-> IF x \in DOMAIN r THEN r[x] ELSE v]
Put(r, n, v) == [x \in (DOMAIN r) \cup {n} |-> IF x = n THEN v ELSE r[x]]

\* PolicyRegistry.Register on the policy ps[idx]
Register_storeFirst(r, ps, idx) ==
    [reg |-> Put(r, ps[idx].name, idx), err |-> ~Validate(ps[idx]),
     calls |-> <<"Name", "Validate">>]
Register(r, ps, idx) ==
    IF ~Validate(ps[idx])
    THEN [reg |-> r, err |-> TRUE, calls |-> <<"Validate">>]
    ELSE [reg |-> Put(r, ps[idx].name, idx), err |-> FALSE,
          calls |-> <<"Validate", "Name">>]

\* PolicyRegistry.Get
\* the result carries the map as the call leaves it
Get_remove(r, n) ==
    IF n \in DOMAIN r
    THEN [policy |-> r[n], ok |-> TRUE,
          reg |-> [x \in (DOMAIN r) \ {n} |-> r[x]]]
    ELSE [policy |-> Nil, ok |-> FALSE, reg |-> r]
Get(r, n) ==
    IF n \in DOMAIN r THEN [policy |-> r[n], ok |-> TRUE, reg |-> r]
    ELSE [policy |-> Nil, ok |-> FALSE, reg |-> r]

Perms(S) ==
    {f \in [1..Cardinality(S) -> S] :
        \A a, b \in 1..Cardinality(S) : f[a] = f[b] => a = b}

\* increasing sequence of the elements of S
RECURSIVE Sorted(_)
Sorted(S) ==
    IF S = {} THEN <<>>
    ELSE LET m == CHOOSE x \in S : \A y \in S : x <= y
         IN <<m>> \o Sorted(S \ {m})

\* PolicyRegistry.List: the keys of the map in the order the range loop
\* yields them, which Go leaves unspecified
List_zeroFilled(r) ==
    {[x \in 1..(2 * Len(q)) |-> IF x <= Len(q) THEN NoName ELSE q[x - Len(q)]] :
        q \in Perms(DOMAIN r)}
List(r) == Perms(DOMAIN r)

\* log.Fatalf in RegisterPolicy ends the process when Register failed
Fatal_ignored(err) == FALSE
Fatal(err) == err

\* main's loop after a failed Execute: continue with the next name
AfterExecError_break(n, ns) == Len(ns) + 1
AfterExecError(n, ns) == n + 1

\* main's handling of a failed Execute is log.Printf, never log.Fatalf
ExecFatal_on(err) == err
ExecFatal(err) == FALSE

\* the context main hands to the Execute call of loop iteration n
ExecCtx_derived(c, n) == [kind |-> "derived", done |-> n > 1]
ExecCtx(c, n) == c

\* exit status of a Go process that ends in a panic
PanicExit == 2

RtInit ==
    /\ regs \in UNION {[1..n -> PolicyRecs] : n \in 0..MaxPolicies}
    /\ registry = NewPolicyRegistry
    /\ rpc = "init"
    /\ regIdx = 1
    /\ lastErr = FALSE
    /\ calls = <<>>
    /\ names = <<>>
    /\ nameIdx = 1
    /\ executed = <<>>
    /\ results = <<>>
    /\ rtExit = -1
    /\ ctx = NoCtx
    /\ ctxs = <<>>
    /\ rtWarned = FALSE
    /\ policies = [d \in Dirs |-> Absent]
    /\ rootExists = FALSE
    /\ manifest = <<>>
    /\ manifest0 = <<>>
    /\ imports = [new |-> FALSE, src |-> NoSource]
    /\ modules = <<>>
    /\ binary = "none"
    /\ image = "none"
    /\ buildContext = FALSE
    /\ socket = "unknown"
    /\ warned = FALSE
    /\ pc = "exited"
    /\ i = 1
    /\ exitCode = 0
    /\ trace = <<Discovering>>
    /\ failed = {}
    /\ invoked = {}
    /\ run = 1
    /\ edited = {}
    /\ imageRef = NoRef
    /\ prev = [run |-> 0, manifest |-> <<>>, src |-> NoSource]

\* main.go lines 13-18: one RegisterPolicy call of the generated init()
RegisterPolicy ==
    /\ rpc = "init"
    /\ regIdx <= Len(regs)
    /\ LET res == Register(registry, regs, regIdx)
       IN /\ lastErr' = res.err
          /\ calls' = res.calls
          /\ registry' = res.reg
          /\ IF Fatal(res.err)
             THEN /\ rpc' = "exited"
                  /\ rtExit' = 1
                  /\ regIdx' = regIdx
             ELSE /\ rpc' = rpc
                  /\ rtExit' = rtExit
                  /\ regIdx' = regIdx + 1
    /\ UNCHANGED <<regs, names, nameIdx, executed, results, ctx, ctxs,
                   rtWarned>>
    /\ UNCHANGED buildVars

\* main.go lines 20-30: main lists the registry; empty => warning, return
StartMain ==
    /\ rpc = "init"
    /\ regIdx > Len(regs)
    /\ \E ns \in List(registry) :
         /\ names' = ns
         /\ IF Len(ns) = 0
            THEN rpc' = "exited" /\ rtExit' = 0
            ELSE rpc' = "dispatch" /\ rtExit' = rtExit
         /\ rtWarned' = (Len(ns) = 0)
         /\ ctx' = IF Len(ns) = 0 THEN ctx ELSE Background
    /\ nameIdx' = 1
    /\ UNCHANGED <<regs, registry, regIdx, lastErr, calls, executed, results,
                   ctxs>>
    /\ UNCHANGED buildVars

\* main.go lines 40-53: one iteration of the loop over the listed names
Dispatch ==
    /\ rpc = "dispatch"
    /\ nameIdx <= Len(names)
    /\ LET got == Get(registry, names[nameIdx])
           policy == got.policy
           err == policy # Nil /\ ~ExecuteOk(regs[policy])
       IN /\ registry' = got.reg
          /\ IF policy = Nil
             THEN /\ rpc' = "exited"
                  /\ rtExit' = PanicExit
                  /\ UNCHANGED <<executed, ctxs, results, nameIdx>>
             ELSE /\ executed' = Append(executed, policy)
                  /\ ctxs' = Append(ctxs, ExecCtx(ctx, nameIdx))
                  /\ results' = IF err THEN results
                                ELSE Append(results, policy)
                  /\ nameIdx' = IF err THEN AfterExecError(nameIdx, names)
                                ELSE nameIdx + 1
                  /\ IF err /\ ExecFatal(err)
                     THEN rpc' = "exited" /\ rtExit' = 1
                     ELSE UNCHANGED <<rpc, rtExit>>
    /\ UNCHANGED <<regs, regIdx, lastErr, calls, names, ctx, rtWarned>>
    /\ UNCHANGED buildVars

\* main.go lines 55-56: the loop is over, main returns
Finish ==
    /\ rpc = "dispatch"
    /\ nameIdx > Len(names)
    /\ rpc' = "exited"
    /\ rtExit' = 0
    /\ UNCHANGED <<regs, registry, regIdx, lastErr, calls, names, nameIdx,
                   executed, results, ctx, ctxs, rtWarned>>
    /\ UNCHANGED buildVars

RtNext == RegisterPolicy \/ StartMain \/ Dispatch \/ Finish

RtSpec == RtInit /\ [][RtNext]_vars

(* ======================= properties ======================= *)

Range(f) == {f[k] : k \in DOMAIN f}

Exited == pc = "exited"

\* the stage a command belongs to
StageOf(cmd) ==
    CASE cmd = "download" -> Discovering
      [] cmd = "generator" -> IF Generating \in Range(trace) THEN Generating
                              ELSE Discovering
      [] cmd \in {"modedit", "resolver"} -> Rewriting
      [] cmd = "compiler" -> Compiling
      [] OTHER -> Packaging

FailedStages == {StageOf(c) : c \in failed}

LegalSuccessor(a, b) ==
    \/ a \in Discovering..Packaging /\ b = a + 1
    \/ a = Compiling /\ b = Done
    \/ a \in Discovering..Packaging /\ b = Failed

\* C1: the stages of a run are entered in the order Discovering, Generating,
\* Rewriting, Compiling, Packaging (optional), Done; a stage is entered only
\* after its predecessor succeeded, never twice, and the only other
\* successor of a stage is Failed, after which nothing runs.
C1_StageOrder ==
    /\ trace[1] = Discovering
    /\ \A k \in 1..(Len(trace) - 1) :
         /\ LegalSuccessor(trace[k], trace[k + 1])
         /\ trace[k + 1] # Failed => trace[k] \notin FailedStages
         /\ trace[k + 1] = Failed => trace[k] \in FailedStages
    /\ Exited <=> CurStage \in {Done, Failed}

C1_Witness == Exited /\ trace = <<Discovering, Generating, Rewriting, Compiling,
                                  Packaging, Done>>

\* C2: soft degrade: with the compile done and the socket absent the script
\* warns, never enters Packaging and ends in Done with exit status 0 and the
\* binary as the only artifact of the run; Packaging is entered only when
\* the socket is reachable.
C2_SoftDegrade ==
    /\ socket = "absent" =>
         /\ warned
         /\ Exited /\ exitCode = 0 /\ CurStage = Done
         /\ Packaging \notin Range(trace)
         /\ binary = "new"
         /\ image # "new" /\ "docker" \notin invoked
    /\ Packaging \in Range(trace) => socket = "present"

C2_Witness == socket = "absent" /\ Exited /\ binary = "new"

\* C3: when Packaging is attempted and the image build call fails the run
\* ends in Failed(Packaging) with a non-zero exit status and never in Done.
C3_PackagingFailureFatal ==
    "docker" \in failed =>
         /\ socket = "present"
         /\ Exited /\ exitCode # 0
         /\ trace = <<Discovering, Generating, Rewriting, Compiling,
                      Packaging, Failed>>
         /\ image # "new"

C3_Witness == "docker" \in failed /\ Exited

\* C4: when the compiler fails the run ends in Failed(Compiling) with a
\* non-zero exit status; the socket is never checked and Packaging never
\* entered in that run.
C4_CompileFailureFatal ==
    "compiler" \in failed =>
         /\ Exited /\ exitCode # 0
         /\ trace = <<Discovering, Generating, Rewriting, Compiling, Failed>>
         /\ socket = "unknown"
         /\ "docker" \notin invoked

C4_Witness == "compiler" \in failed /\ Exited

\* C5: the exit status is 0 exactly when the run ends in Done (with or
\* without Packaging) and non-zero exactly when it ends in Failed(stage).
C5_ExitStatus ==
    Exited =>
         /\ exitCode = 0 <=> CurStage = Done
         /\ exitCode # 0 <=> CurStage = Failed
         /\ exitCode = 0 <=> failed = {}

C5_WitnessSoft == Exited /\ exitCode = 0 /\ socket = "absent"

\* C6: when the resolver (go mod tidy) fails the run ends in
\* Failed(Rewriting) with a non-zero exit status and the compiler is never
\* invoked.
C6_ResolveFailureFatal ==
    "resolver" \in failed =>
         /\ Exited /\ exitCode # 0
         /\ trace = <<Discovering, Generating, Rewriting, Failed>>
         /\ "compiler" \notin invoked
         /\ binary # "new"

C6_Witness == "resolver" \in failed /\ Exited /\ manifest # manifest0

SameIdentifier(p) ==
    \E d1, d2 \in Dirs : d1 # d2 /\ LoopAdds(p, d1) /\ LoopAdds(p, d2)
                         /\ p[d1].id = p[d2].id

\* C8: when two different policy directories declare the same import
\* identifier the run fails before any manifest mutation, and no
\* substitution for that identifier is chosen by last-write-wins.
C8_CollisionFatal ==
    SameIdentifier(policies) =>
         /\ manifest = manifest0
         /\ Exited => exitCode # 0

\* C9: a subdirectory without go.mod or without policy.go is skipped: no
\* substitution directive is added for it.
C9_SkippedGetsNoDirective ==
    \A d \in Dirs :
        policies[d].present /\ (~policies[d].mod \/ ~policies[d].src) =>
            \A k \in 1..Len(manifest) :
                manifest[k].path = d => manifest[k] \in Range(manifest0)

NoDuplicate(m) == \A j, k \in 1..Len(m) : m[j].id = m[k].id => j = k

Declaring(p, id) == {d \in Dirs : LoopAdds(p, d) /\ p[d].id = id}

Max(S) == CHOOSE x \in S : \A y \in S : y <= x

LoopOver == pc = "loop" /\ rootExists /\ i > NDirs /\ "modedit" \notin failed

\* C10: the manifest rewrite is idempotent: each edit sets the directive of
\* the declared identifier to the directory's path, replacing the directive
\* already there, so the manifest holds one directive per identifier and a
\* second run over unchanged directories leaves the manifest of the first.
C10_RewriteIdempotent ==
    /\ NoDuplicate(manifest)
    /\ LoopOver =>
         /\ \A id \in Ids : Declaring(policies, id) # {} =>
                \E k \in 1..Len(manifest) :
                    manifest[k] = [id |-> id,
                                   path |-> Max(Declaring(policies, id))]
         /\ prev.run = run - 1 /\ prev.run > 0 => manifest = prev.manifest

C10_Witness ==
    /\ LoopOver /\ run = 2 /\ prev.run = 1
    /\ Len(manifest) = 2 /\ manifest0 = manifest
    /\ \E k \in 1..Len(manifest) : manifest[k].path # OldPath

RegisterStep == rpc = "init" /\ regIdx <= Len(regs)

\* C11: Register calls Validate on the policy before anything else; when
\* Validate fails Register returns the error and the registry is left as it
\* was (the policy is not stored under its name).
C11_RegisterValidatesFirst ==
    [][RegisterStep =>
          /\ Head(calls') = "Validate"
          /\ ~Validate(regs[regIdx]) =>
                lastErr' /\ registry' = registry /\ calls' = <<"Validate">>
          /\ Validate(regs[regIdx]) => ~lastErr']_vars

C11_Witness ==
    /\ rpc = "exited" /\ lastErr /\ calls = <<"Validate">>
    /\ DOMAIN registry # {}
    /\ regs[regIdx].name \notin DOMAIN registry

\* C12: strict activation: when a policy handed to RegisterPolicy fails
\* validation the process ends there with a failure status; no later policy
\* is registered and Execute is called on no policy.
C12_StrictActivation ==
    lastErr =>
        /\ rpc = "exited" /\ rtExit = 1
        /\ ~Validate(regs[regIdx])
        /\ \A n \in DOMAIN registry : registry[n] < regIdx
        /\ names = <<>> /\ executed = <<>> /\ results = <<>>

C12_Witness ==
    /\ lastErr /\ rpc = "exited"
    /\ regIdx > 1 /\ regIdx < Len(regs) /\ Validate(regs[Len(regs)])

Registered == {registry[n] : n \in DOMAIN registry}

Succeeds(p) == ExecuteOk(regs[p])

\* C13: batch isolation: one batch calls Execute exactly once on every
\* registered policy; a policy whose Execute fails has its result skipped
\* and every remaining policy is still executed and its result produced.
C13_BatchIsolation ==
    /\ rpc = "dispatch" =>
         /\ Len(executed) < nameIdx
         /\ \A a \in 1..Len(executed) : executed[a] = registry[names[a]]
    /\ rpc = "exited" /\ rtExit = 0 =>
         /\ Len(executed) = Cardinality(Registered)
         /\ Range(executed) = Registered
         /\ results = SelectSeq(executed, Succeeds)

C13_Witness ==
    /\ rpc = "exited" /\ rtExit = 0
    /\ Len(executed) = 3 /\ Len(results) = 2
    /\ ~Succeeds(executed[2])
    /\ results = <<executed[1], executed[3]>>

\* C14: List returns the registered names sorted by name and the dispatcher
\* executes in that order on every run.
C14_SortedDispatch ==
    rpc \in {"dispatch", "exited"} => names = Sorted(DOMAIN registry)

Source == imports.src.imports

RecognizedIds == {policies[d].id : d \in {x \in Dirs : Recognized(policies, x)}}

\* C15: generation is deterministic: for a fixed module set two generations
\* give the identical aggregator source, its imports and its registration
\* calls ordered by declared import identifier, whatever the order in which
\* the directories were traversed.
C15_GenerationDeterministic ==
    imports.new =>
        /\ \A a, b \in 1..Len(Source) : a < b => Source[a].id < Source[b].id
        /\ {Source[a].id : a \in 1..Len(Source)} = RecognizedIds
        /\ imports.src.calls = [a \in 1..Len(Source) |-> Source[a].alias]
        /\ prev.run = run - 1 /\ prev.run > 0 => imports.src = prev.src

C15_Witness ==
    /\ imports.new /\ run = 2 /\ prev.run = 1
    /\ Len(Source) = 2 /\ Len(prev.src.imports) = 2
    /\ policies[1].id > policies[2].id

C17_NoStaleBinary ==
    Exited /\ "compiler" \in failed => binary # "old"

\* C18: the image reference is name:tag, the name being the configured
\* image name or policy-engine when that is unset or empty, the tag the
\* configured tag or latest when that is unset or empty, each default
\* applying on its own.
C18_ImageReference ==
    imageRef # NoRef =>
        LET name == IF imageRef.repo \in {[set |-> FALSE, val |-> ""],
                                          [set |-> TRUE, val |-> ""]}
                    THEN "policy-engine" ELSE imageRef.repo.val
            tag == IF imageRef.tag \in {[set |-> FALSE, val |-> ""],
                                        [set |-> TRUE, val |-> ""]}
                   THEN "latest" ELSE imageRef.tag.val
        IN imageRef.ref = <<name, ":", tag>>

C18_Witness ==
    /\ image = "new" /\ Exited
    /\ imageRef.repo = [set |-> TRUE, val |-> ""]
    /\ imageRef.tag = [set |-> TRUE, val |-> "custom"]
    /\ imageRef.ref = <<"policy-engine", ":", "custom">>

\* C19: the rewriter inserts substitution directives for exactly the
\* recognized modules: a subdirectory gets one iff it holds a go.mod
\* declaring a module path and policy.go.
C19_DirectivesExactlyRecognized ==
    LoopOver => edited = {d \in Dirs : Recognized(policies, d)}

\* C20: after a successful Rewriting stage the manifest reflects the
\* current filesystem: a directive an earlier run inserted for a directory
\* that no longer exists is not kept.
C20_ManifestReflectsFilesystem ==
    Compiling \in Range(trace) =>
        \A n \in 1..Len(manifest) :
            manifest[n].path \in Dirs => policies[manifest[n].path].present

\* C22: registering a policy that passes validation under a name that is
\* already registered returns no error and replaces the earlier policy: Get
\* of the name gives the later policy, the number of names is the same and
\* every other entry is as before.
C22_DuplicateReplaces ==
    [][(RegisterStep /\ Validate(regs[regIdx])
           /\ regs[regIdx].name \in DOMAIN registry) =>
          /\ ~lastErr'
          /\ Get(registry', regs[regIdx].name).ok
          /\ Get(registry', regs[regIdx].name).policy = regIdx
          /\ Cardinality(DOMAIN registry') = Cardinality(DOMAIN registry)
          /\ \A x \in (DOMAIN registry) \ {regs[regIdx].name} :
                registry'[x] = registry[x]]_vars

C22_Witness ==
    /\ ~lastErr
    /\ Cardinality(DOMAIN registry) = 2
    /\ \E x \in DOMAIN registry : \E q \in 1..(registry[x] - 1) :
          regs[q].name = x /\ Validate(regs[q])

MainStarted == rpc = "dispatch" \/ (rpc = "init" /\ regIdx > Len(regs))

\* C23: once the dispatcher has started, no step up to the exit of the
\* process adds, replaces or removes a registry entry.
C23_ReadOnlyAfterInit == [][MainStarted => registry' = registry]_vars

C23_Witness ==
    /\ rpc = "exited" /\ rtExit = 0
    /\ Len(executed) = 2 /\ Cardinality(DOMAIN registry) = 2
    /\ Len(regs) = 3

\* the calls of RegisterPolicy that have returned
Completed == 1..(regIdx - 1)

LatestValid(x) ==
    LET S == {q \in Completed : regs[q].name = x /\ Validate(regs[q])}
    IN IF S = {} THEN Nil ELSE Max(S)

\* C24: Get and List leave the registry as it is; Get of a name gives the
\* policy most recently registered under it and true when there is one, nil
\* and false otherwise; List gives every registered name once and no other.
C24_PureLookups ==
    /\ \A x \in Names \cup {NoName} :
          /\ Get(registry, x).reg = registry
          /\ Get(registry, x).ok = (LatestValid(x) # Nil)
          /\ Get(registry, x).policy = LatestValid(x)
    /\ \A ns \in List(registry) :
          /\ Len(ns) = Cardinality(DOMAIN registry)
          /\ Range(ns) = DOMAIN registry
    /\ (rpc = "dispatch" \/ (rpc = "exited" /\ ~lastErr)) =>
          /\ Len(names) = Cardinality(DOMAIN registry)
          /\ Range(names) = DOMAIN registry

C24_Witness ==
    /\ rpc = "dispatch"
    /\ Cardinality(DOMAIN registry) = 2
    /\ \E x \in DOMAIN registry : registry[x] = 3 /\ regs[1].name = x

\* C25: every Execute call of a batch receives the one context main created,
\* and the batch does not end on account of the context: when the process
\* exits after successful registration every registered policy was executed.
C25_CancellationAdvisory ==
    /\ Len(ctxs) = Len(executed)
    /\ \A a \in 1..Len(ctxs) : ctxs[a] = ctx
    /\ rpc = "dispatch" => ctx = Background
    /\ rpc = "exited" /\ ~lastErr => Range(executed) = Registered

C25_Witness ==
    /\ rpc = "exited" /\ ~lastErr
    /\ ctxs = <<Background, Background, Background>>
    /\ ~Succeeds(executed[1])

\* C28: every registry entry is stored under the name its policy reports and
\* belongs to a policy whose Validate returned no error before it was
\* stored; a policy whose Validate fails is returned by no Get and its name
\* is listed only when a valid policy holds it.
C28_RegistryInvariant ==
    /\ \A x \in DOMAIN registry :
          /\ registry[x] \in Completed
          /\ regs[registry[x]].name = x
          /\ Validate(regs[registry[x]])
    /\ \A q \in 1..Len(regs) : ~Validate(regs[q]) =>
          /\ \A x \in Names : Get(registry, x).policy # q
          /\ \A ns \in List(registry) : \A a \in 1..Len(ns) :
                registry[ns[a]] # q

C28_Witness ==
    /\ rpc = "exited" /\ lastErr
    /\ regs[regIdx].name \in DOMAIN registry
    /\ Cardinality(DOMAIN registry) = 2

\* C29: during a batch every name main took from List is found by Get, so
\* the policy whose Execute main calls is never nil and main never panics.
C29_ListedNamesFound ==
    /\ rpc = "dispatch" =>
          \A a \in 1..Len(names) :
             /\ Get(registry, names[a]).ok
             /\ Get(registry, names[a]).policy # Nil
    /\ \A a \in 1..Len(executed) : executed[a] # Nil
    /\ rtExit # PanicExit

C29_Witness ==
    /\ rpc = "dispatch" /\ Len(names) = 3 /\ nameIdx = 3
    /\ Len(executed) = 2

\* C30: once every registration has succeeded the process can always take
\* its next step and ends with status 0, however many Execute calls failed;
\* with an empty registry it logs the warning and ends with status 0 without
\* any Execute call.
C30_ExecErrorsNeverFatal ==
    /\ rpc = "dispatch" => ~lastErr /\ rtExit = -1
    /\ rpc # "exited" => ENABLED RtNext
    /\ rpc = "exited" /\ ~lastErr => rtExit = 0
    /\ rpc = "exited" /\ ~lastErr /\ DOMAIN registry = {} =>
          rtWarned /\ executed = <<>>
    /\ rtWarned => DOMAIN registry = {} /\ rtExit = 0

C30_Witness ==
    /\ rpc = "exited" /\ rtExit = 0
    /\ Len(executed) = 2 /\ results = <<>>

C30_WitnessEmpty ==
    /\ rpc = "exited" /\ rtExit = 0 /\ rtWarned
    /\ Len(regs) = 0

\* C21: when the import generator fails, in the scan or while writing the
\* aggregator source, the run ends there with a non-zero status: go.mod is
\* as it was when the run began and neither go mod edit, go mod tidy, go
\* build nor docker build has been run.
C21_GeneratorFailureFatal ==
    "generator" \in failed =>
        /\ Exited /\ exitCode # 0
        /\ manifest = manifest0
        /\ invoked = {"generator"}
        /\ CurStage = Failed
        /\ i = 1 /\ edited = {}

C21_Witness ==
    /\ "generator" \in failed /\ Exited
    /\ trace = <<Discovering, Generating, Failed>>
    /\ LoopAdds(policies, 1)
    /\ manifest0 # <<>>

\* C26: when every command build.sh runs returns, every run of build.sh
\* ends: it reaches its exit with Done or Failed as the last stage.
C26_RunTerminates ==
    (~Exited) ~> (Exited /\ CurStage \in {Done, Failed})

C26_Witness ==
    /\ run = 2 /\ Exited /\ CurStage = Done
    /\ image = "new" /\ edited = Dirs

\* C27: a run that has created the image build context has removed it when
\* the run ends.
C27_ContextRemoved ==
    (Exited /\ Packaging \in Range(trace) /\ "mkdir" \notin failed
        /\ socket = "present") => ~buildContext

====
